---- MODULE Spec2Model ----
(***************************************************************************)
(* The Customer model of erxes (db/models/Customers): duplication check,   *)
(* create, update, remove and merge, over a customer store and the four    *)
(* collaborator stores (ActivityLogs, Conversations, EngageMessages,       *)
(* InternalNotes).                                                         *)
(*                                                                         *)
(* A JavaScript object is a function from the keys it has to their values: *)
(* a key that is absent (undefined) is not in the DOMAIN.  Every call is   *)
(* one action (calls do not overlap); lastCall records which operation ran, *)
(* what it returned or threw, and the writes and collaborator calls it     *)
(* made.  The documents callers pass are drawn from one family per         *)
(* behaviour, chosen in Init, which keeps the documents of a behaviour to  *)
(* a few keys.  Identity values (e1, p1, the id of twitterData, ...) are   *)
(* non-empty strings and objects, so that the truthiness tests of          *)
(* checkDuplication (if (customerFields.primaryEmail)) are tests of        *)
(* presence.                                                               *)
(***************************************************************************)
EXTENDS Integers, Sequences, FiniteSets, TLC

VARIABLES
  customers,   \* the Customers collection: _id -> document
  nextId,      \* the next _id the store assigns
  related,     \* collaborator -> (record key -> customerId it references)
  lastCall,    \* the last call: what it returned or threw, the writes it made
  family,      \* the documents the callers of this behaviour pass (a bound)
  calls,       \* process -> its call in flight, where the call is interleaved
  companies    \* the number of companies the Companies collaborator created

vars == <<customers, nextId, related, lastCall, family, calls, companies>>

----------------------------------------------------------------------------
(* Bounds *)

MaxIds == 3         \* documents ever created, survivors of merges included
MaxMergeLen == 2    \* length of the customerIds list of a merge
MaxRelated == 1     \* records per collaborator store
MaxProcs == 2       \* calls in flight at the same time
MaxCompanies == 2   \* companies ever created

Ids == 1..MaxIds

Procs == 1..MaxProcs

----------------------------------------------------------------------------
(* JavaScript objects and arrays *)

EmptyDoc == [f \in {} |-> ""]

\* no acting user
NoUser == EmptyDoc

Has(o, f) == f \in DOMAIN o

\* {...a, ...b}: the keys of b override those of a
Spread(a, b) == b @@ a

Without(o, f) == [g \in DOMAIN o \ {f} |-> o[g]]

\* o.f || []
ArrayOf(o, f) == IF Has(o, f) THEN o[f] ELSE <<>>

Range(s) == {s[i] : i \in 1..Len(s)}

Contains(s, v) == \E i \in 1..Len(s) : s[i] = v

\* the array as it is, repeats kept
uniq_KeepRepeats(arr) == arr

\* Array.from(new Set(arr)): first occurrences, in insertion order
RECURSIVE uniq(_)
uniq(arr) ==
  IF arr = <<>> THEN <<>>
  ELSE LET init == uniq(SubSeq(arr, 1, Len(arr) - 1))
           last == arr[Len(arr)]
       IN IF \E i \in 1..Len(init) : init[i] = last THEN init ELSE Append(init, last)

NoRepeat(s) == \A i, j \in 1..Len(s) : s[i] = s[j] => i = j

\* a document with the key f set to one of vals, or without it
Opt(f, vals) == {EmptyDoc} \cup {[g \in {f} |-> v] : v \in vals}

----------------------------------------------------------------------------
(* checkDuplication *)

NoExclude == [kind |-> "none", id |-> 0, ids |-> <<>>]
ExcludeOne(id) == [kind |-> "one", id |-> id, ids |-> <<>>]
ExcludeMany(ids) == [kind |-> "many", id |-> 0, ids |-> ids]

\* query._id: { $nin: idsToExclude } for an array, { $ne: idsToExclude } otherwise
QueryIds(store, idsToExclude) ==
  CASE idsToExclude.kind = "none" -> DOMAIN store
    [] idsToExclude.kind = "one"  -> DOMAIN store \ {idsToExclude.id}
    [] idsToExclude.kind = "many" -> DOMAIN store \ Range(idsToExclude.ids)

TwitterMatch(store, q, customerFields) ==
  {i \in q : Has(store[i], "twitterData")
             /\ store[i].twitterData.id = customerFields.twitterData.id}

FacebookMatch(store, q, customerFields) ==
  {i \in q : Has(store[i], "facebookData")
             /\ store[i].facebookData.id = customerFields.facebookData.id}

PrimaryEmailMatch(store, q, customerFields) ==
  {i \in q : Has(store[i], "primaryEmail")
             /\ store[i].primaryEmail = customerFields.primaryEmail}

\* the second email query repeating the first: emails is never searched
EmailsMatch_AsPrimary(store, q, customerFields) ==
  {i \in q : Has(store[i], "primaryEmail")
             /\ store[i].primaryEmail = customerFields.primaryEmail}

EmailsMatch(store, q, customerFields) ==
  {i \in q : Has(store[i], "emails")
             /\ Contains(store[i].emails, customerFields.primaryEmail)}

PhonesMatch(store, q, customerFields) ==
  {i \in q : Has(store[i], "phones")
             /\ Contains(store[i].phones, customerFields.primaryPhone)}

\* the first phone query repeating the second: primaryPhone is never compared
PrimaryPhoneMatch_AsPhones(store, q, customerFields) ==
  PhonesMatch(store, q, customerFields)

PrimaryPhoneMatch(store, q, customerFields) ==
  {i \in q : Has(store[i], "primaryPhone")
             /\ store[i].primaryPhone = customerFields.primaryPhone}

\* the facebook query made before the twitter query
checkDuplication_FacebookFirst(store, customerFields, idsToExclude) ==
  LET q == QueryIds(store, idsToExclude) IN
  IF Has(customerFields, "facebookData")
     /\ FacebookMatch(store, q, customerFields) # {}
  THEN "Duplicated facebook"
  ELSE IF Has(customerFields, "twitterData")
          /\ TwitterMatch(store, q, customerFields) # {}
  THEN "Duplicated twitter"
  ELSE IF Has(customerFields, "primaryEmail")
          /\ (PrimaryEmailMatch(store, q, customerFields) # {}
              \/ EmailsMatch(store, q, customerFields) # {})
  THEN "Duplicated email"
  ELSE IF Has(customerFields, "primaryPhone")
          /\ (PrimaryPhoneMatch(store, q, customerFields) # {}
              \/ PhonesMatch(store, q, customerFields) # {})
  THEN "Duplicated phone"
  ELSE "ok"

\* "ok", or the message of the Error thrown
checkDuplication(store, customerFields, idsToExclude) ==
  LET q == QueryIds(store, idsToExclude) IN
  IF Has(customerFields, "twitterData")
     /\ TwitterMatch(store, q, customerFields) # {}
  THEN "Duplicated twitter"
  ELSE IF Has(customerFields, "facebookData")
          /\ FacebookMatch(store, q, customerFields) # {}
  THEN "Duplicated facebook"
  ELSE IF Has(customerFields, "primaryEmail")
          /\ (PrimaryEmailMatch(store, q, customerFields) # {}
              \/ EmailsMatch(store, q, customerFields) # {})
  THEN "Duplicated email"
  ELSE IF Has(customerFields, "primaryPhone")
          /\ (PrimaryPhoneMatch(store, q, customerFields) # {}
              \/ PhonesMatch(store, q, customerFields) # {})
  THEN "Duplicated phone"
  ELSE "ok"

----------------------------------------------------------------------------
(* Collaborators *)

CollabOrder == <<"ActivityLogs", "Conversations", "EngageMessages", "InternalNotes">>

Collaborators == Range(CollabOrder)

RemoveMethod ==
  [c \in Collaborators |->
     CASE c = "ActivityLogs"   -> "removeCustomerActivityLog"
       [] c = "Conversations"  -> "removeCustomerConversations"
       [] c = "EngageMessages" -> "removeCustomerEngages"
       [] c = "InternalNotes"  -> "removeCustomerInternalNotes"]

KnownFields == {"cf1"}

\* Fields.cleanMulti: strips the unknown field identifiers of a payload
cleanMulti(data) == data \cap KnownFields

\* removeCustomerXxx(customerId): delete every record referencing the customer
removeCustomerRecords(recs, customerId) ==
  [k \in {j \in DOMAIN recs : recs[j] # customerId} |-> recs[k]]

\* changeCustomer(newCustomerId, customerIds): repoint the references
changeCustomer(recs, newCustomerId, customerIds) ==
  [k \in DOMAIN recs |->
     IF recs[k] \in Range(customerIds) THEN newCustomerId ELSE recs[k]]

Event(target, method, newId, ids, ok) ==
  [target |-> target, method |-> method, newId |-> newId, ids |-> ids, ok |-> ok]

\* the calls of a cascade that were invoked: all four, or those up to the one
\* that failed (failAt = 0: none fails)
Invoked(failAt) == IF failAt = 0 THEN Len(CollabOrder) ELSE failAt

\* the collaborator stores after the cascade: a call that returned has taken
\* effect, the call that failed has or has not (partial), a later one was
\* never made
TakesEffect(c, failAt, partial) ==
  LET k == CHOOSE j \in 1..Len(CollabOrder) : CollabOrder[j] = c IN
  failAt = 0 \/ k < failAt \/ (k = failAt /\ partial)

RemoveStores(rel, customerId, failAt, partial) ==
  [c \in Collaborators |->
     IF TakesEffect(c, failAt, partial)
     THEN removeCustomerRecords(rel[c], customerId) ELSE rel[c]]

ChangeStores(rel, newId, customerIds, failAt, partial) ==
  [c \in Collaborators |->
     IF TakesEffect(c, failAt, partial)
     THEN changeCustomer(rel[c], newId, customerIds) ELSE rel[c]]

----------------------------------------------------------------------------
(* createCustomer, updateCustomer *)

Now == "now"

Insert(store, id, rec) == (id :> rec) @@ store

Delete(store, id) == [i \in DOMAIN store \ {id} |-> store[i]]

\* the custom field payload stored as the caller passed it
CreatedDoc_RawPayload(doc, user) ==
  LET owned == IF ~Has(doc, "ownerId") /\ Has(user, "_id")
               THEN Spread(doc, [ownerId |-> user._id]) ELSE doc
      payload == [customFieldsData |->
                    IF Has(owned, "customFieldsData") THEN owned.customFieldsData ELSE {}]
  IN Spread([createdAt |-> Now, modifiedAt |-> Now], Spread(owned, payload))

\* the acting user made the owner whatever doc says
CreatedDoc_UserOwns(doc, user) ==
  LET owned == IF Has(user, "_id")
               THEN Spread(doc, [ownerId |-> user._id]) ELSE doc
      cleaned == Spread(owned,
                   [customFieldsData |->
                      cleanMulti(IF Has(owned, "customFieldsData")
                                 THEN owned.customFieldsData ELSE {})])
  IN Spread([createdAt |-> Now, modifiedAt |-> Now], cleaned)

\* the document createCustomer(doc, user) hands to Customers.create
CreatedDoc(doc, user) ==
  LET owned == IF ~Has(doc, "ownerId") /\ Has(user, "_id")
               THEN Spread(doc, [ownerId |-> user._id]) ELSE doc
      cleaned == Spread(owned,
                   [customFieldsData |->
                      cleanMulti(IF Has(owned, "customFieldsData")
                                 THEN owned.customFieldsData ELSE {})])
  IN Spread([createdAt |-> Now, modifiedAt |-> Now], cleaned)

\* the result of createCustomer(doc, user) on store, the store assigning newId
createCustomer(store, newId, doc, user) ==
  LET dup == checkDuplication(store, doc, NoExclude)
      rec == CreatedDoc(doc, user)
  IN IF dup # "ok"
     THEN [status |-> dup, store |-> store, ret |-> 0, trace |-> <<>>]
     ELSE [status |-> "ok", store |-> Insert(store, newId, rec), ret |-> newId,
           trace |-> <<Event("Customers", "create", newId, <<>>, TRUE)>>]

\* the $set of updateCustomer(_id, doc)
UpdateSet(doc) ==
  LET cleaned == IF Has(doc, "customFieldsData")
                 THEN Spread(doc, [customFieldsData |-> cleanMulti(doc.customFieldsData)])
                 ELSE doc
  IN Spread(cleaned, [modifiedAt |-> Now])

\* the result of updateCustomer(_id, doc) on store
updateCustomer(store, _id, doc) ==
  LET dup == checkDuplication(store, doc, ExcludeOne(_id))
      set == UpdateSet(doc)
  IN IF dup # "ok"
     THEN [status |-> dup, store |-> store, ret |-> 0, trace |-> <<>>]
     ELSE [status |-> "ok",
           store |-> IF _id \in DOMAIN store
                     THEN [store EXCEPT ![_id] = Spread(store[_id], set)]
                     ELSE store,
           ret |-> IF _id \in DOMAIN store THEN _id ELSE 0,
           trace |-> <<Event("Customers", "update", 0, <<_id>>, TRUE)>>]

----------------------------------------------------------------------------
(* addCompany, updateCompanies *)

\* the _id of the n-th company that Companies.createCompany creates
CompanyNames == <<"k1", "k2", "k3", "k4">>

\* $addToSet: the value is appended unless the array holds it
AddToSet(arr, v) == IF Contains(arr, v) THEN arr ELSE Append(arr, v)

\* $set of the array to the new company alone
addCompany_Replace(store, _id, company) ==
  [status |-> "ok",
   store |-> IF _id \in DOMAIN store
             THEN [store EXCEPT ![_id] = Spread(@, [companyIds |-> <<company>>])]
             ELSE store,
   ret |-> company,
   trace |-> <<Event("Companies", "createCompany", 0, <<>>, TRUE),
               Event("Customers", "update", 0, <<_id>>, TRUE)>>]

\* the result of addCompany({ _id, name, website }), company being the _id of
\* the company created
addCompany(store, _id, company) ==
  [status |-> "ok",
   store |-> IF _id \in DOMAIN store
             THEN [store EXCEPT ![_id] =
                     Spread(@, [companyIds |->
                                  AddToSet(ArrayOf(store[_id], "companyIds"), company)])]
             ELSE store,
   ret |-> company,
   trace |-> <<Event("Companies", "createCompany", 0, <<>>, TRUE),
               Event("Customers", "update", 0, <<_id>>, TRUE)>>]

\* the result of updateCompanies(_id, companyIds)
updateCompanies(store, _id, companyIds) ==
  [status |-> "ok",
   store |-> IF _id \in DOMAIN store
             THEN [store EXCEPT ![_id] = Spread(@, [companyIds |-> companyIds])]
             ELSE store,
   ret |-> IF _id \in DOMAIN store THEN _id ELSE 0,
   trace |-> <<Event("Customers", "update", 0, <<_id>>, TRUE)>>]

----------------------------------------------------------------------------
(* removeCustomer *)

RemoveTrace(customerId, failAt) ==
  [k \in 1..Invoked(failAt) |->
     Event(CollabOrder[k], RemoveMethod[CollabOrder[k]], 0, <<customerId>>, k # failAt)]

\* the customer document removed before the cascade
removeCustomer_DeleteFirst(store, rel, customerId, failAt, partial) ==
  LET cleanedRel == RemoveStores(rel, customerId, failAt, partial)
      removal == <<Event("Customers", "remove", 0, <<customerId>>, TRUE)>>
  IN [status |-> IF failAt # 0 THEN "failed" ELSE "ok",
      stage |-> IF failAt # 0 THEN CollabOrder[failAt] ELSE "",
      store |-> Delete(store, customerId), rel |-> cleanedRel, ret |-> 0,
      trace |-> removal \o RemoveTrace(customerId, failAt)]

\* the result of removeCustomer(customerId); the failAt-th cascade call fails
removeCustomer(store, rel, customerId, failAt, partial) ==
  LET cleanedRel == RemoveStores(rel, customerId, failAt, partial)
      cascade == RemoveTrace(customerId, failAt)
  IN IF failAt # 0
     THEN [status |-> "failed", stage |-> CollabOrder[failAt], store |-> store,
           rel |-> cleanedRel, ret |-> 0, trace |-> cascade]
     ELSE [status |-> "ok", stage |-> "", store |-> Delete(store, customerId),
           rel |-> cleanedRel, ret |-> 0,
           trace |-> Append(cascade,
                            Event("Customers", "remove", 0, <<customerId>>, TRUE))]

----------------------------------------------------------------------------
(* mergeCustomers *)

\* an integrationId the caller supplied is kept
SetIntegration_KeepSupplied(customerFields, customerObj) ==
  IF Has(customerFields, "integrationId") \/ ~Has(customerObj, "integrationId")
  THEN customerFields
  ELSE Spread(customerFields, [integrationId |-> customerObj.integrationId])

\* customerFields.integrationId = customerObj.integrationId
SetIntegration(customerFields, customerObj) ==
  IF Has(customerObj, "integrationId")
  THEN Spread(customerFields, [integrationId |-> customerObj.integrationId])
  ELSE Without(customerFields, "integrationId")

\* an identifier that resolves to no record folded as an empty record
MergeOne_UnresolvedFolded(acc, customerId) ==
  LET customerObj == IF customerId \in DOMAIN acc.store
                     THEN acc.store[customerId] ELSE EmptyDoc IN
  [customerFields |-> SetIntegration(acc.customerFields, customerObj),
   tagIds     |-> acc.tagIds \o ArrayOf(customerObj, "tagIds"),
   companyIds |-> acc.companyIds \o ArrayOf(customerObj, "companyIds"),
   emails     |-> acc.emails \o ArrayOf(customerObj, "emails"),
   phones     |-> acc.phones \o ArrayOf(customerObj, "phones"),
   store      |-> Delete(acc.store, customerId),
   trace      |-> Append(acc.trace,
                         Event("Customers", "remove", 0, <<customerId>>, TRUE))]

\* the input folded but left in the store
MergeOne_KeepsInput(acc, customerId) ==
  IF customerId \in DOMAIN acc.store
  THEN LET customerObj == acc.store[customerId] IN
       [customerFields |-> SetIntegration(acc.customerFields, customerObj),
        tagIds     |-> acc.tagIds \o ArrayOf(customerObj, "tagIds"),
        companyIds |-> acc.companyIds \o ArrayOf(customerObj, "companyIds"),
        emails     |-> acc.emails \o ArrayOf(customerObj, "emails"),
        phones     |-> acc.phones \o ArrayOf(customerObj, "phones"),
        store      |-> acc.store,
        trace      |-> Append(acc.trace,
                              Event("Customers", "remove", 0, <<customerId>>, TRUE))]
  ELSE acc

\* one iteration of the loop over customerIds
MergeOne(acc, customerId) ==
  IF customerId \in DOMAIN acc.store
  THEN LET customerObj == acc.store[customerId] IN
       [customerFields |-> SetIntegration(acc.customerFields, customerObj),
        tagIds     |-> acc.tagIds \o ArrayOf(customerObj, "tagIds"),
        companyIds |-> acc.companyIds \o ArrayOf(customerObj, "companyIds"),
        emails     |-> acc.emails \o ArrayOf(customerObj, "emails"),
        phones     |-> acc.phones \o ArrayOf(customerObj, "phones"),
        store      |-> Delete(acc.store, customerId),
        trace      |-> Append(acc.trace,
                              Event("Customers", "remove", 0, <<customerId>>, TRUE))]
  ELSE acc

\* the loop over customerIds, from the i-th on
RECURSIVE MergeLoop(_, _, _)
MergeLoop(acc, customerIds, i) ==
  IF i > Len(customerIds) THEN acc
  ELSE MergeLoop(MergeOne(acc, customerIds[i]), customerIds, i + 1)

MergeSeed(store, customerFields) ==
  [customerFields |-> customerFields,
   tagIds     |-> <<>>,
   companyIds |-> <<>>,
   emails     |-> IF Has(customerFields, "primaryEmail")
                  THEN <<customerFields.primaryEmail>> ELSE <<>>,
   phones     |-> IF Has(customerFields, "primaryPhone")
                  THEN <<customerFields.primaryPhone>> ELSE <<>>,
   store      |-> store,
   trace      |-> <<>>]

\* the document handed to createCustomer
MergedDoc(acc) ==
  Spread(acc.customerFields,
         [tagIds     |-> uniq(acc.tagIds),
          companyIds |-> uniq(acc.companyIds),
          emails     |-> uniq(acc.emails),
          phones     |-> uniq(acc.phones)])

ChangeTrace(newId, customerIds, failAt) ==
  [k \in 1..Invoked(failAt) |->
     Event(CollabOrder[k], "changeCustomer", newId, customerIds, k # failAt)]

\* only the first merged customer is repointed
ChangeAll_FirstIdOnly(rel, newId, customerIds, failAt, partial) ==
  [rel |-> ChangeStores(rel, newId, SubSeq(customerIds, 1, 1), failAt, partial),
   trace |-> ChangeTrace(newId, SubSeq(customerIds, 1, 1), failAt)]

\* the four changeCustomer(customer._id, customerIds) calls; the failAt-th fails
ChangeAll(rel, newId, customerIds, failAt, partial) ==
  [rel |-> ChangeStores(rel, newId, customerIds, failAt, partial),
   trace |-> ChangeTrace(newId, customerIds, failAt)]

\* mergeCustomers after its duplication check: the loop, createCustomer, the
\* collaborators
MergeChecked(store, rel, newId, customerIds, customerFields, failAt, partial) ==
  LET acc == MergeLoop(MergeSeed(store, customerFields), customerIds, 1)
      created == createCustomer(acc.store, newId, MergedDoc(acc), NoUser)
      changed == ChangeAll(rel, newId, customerIds, failAt, partial)
      fullTrace == acc.trace \o created.trace \o changed.trace
  IN IF created.status # "ok"
     THEN [status |-> created.status, stage |-> "create", store |-> acc.store,
           rel |-> rel, ret |-> 0, trace |-> acc.trace]
     ELSE IF failAt # 0
     THEN [status |-> "failed", stage |-> CollabOrder[failAt], store |-> created.store,
           rel |-> changed.rel, ret |-> 0, trace |-> fullTrace]
     ELSE [status |-> "ok", stage |-> "", store |-> created.store,
           rel |-> changed.rel, ret |-> newId, trace |-> fullTrace]

\* the duplication check made after the loop over customerIds
mergeCustomers_LateCheck(store, rel, newId, customerIds, customerFields, failAt, partial) ==
  LET dup == checkDuplication(store, customerFields, ExcludeMany(customerIds))
      acc == MergeLoop(MergeSeed(store, customerFields), customerIds, 1)
  IN IF dup # "ok"
     THEN [status |-> dup, stage |-> "check", store |-> acc.store, rel |-> rel,
           ret |-> 0, trace |-> acc.trace]
     ELSE MergeChecked(store, rel, newId, customerIds, customerFields, failAt, partial)

\* the result of mergeCustomers(customerIds, customerFields); the failAt-th
\* changeCustomer call fails
mergeCustomers(store, rel, newId, customerIds, customerFields, failAt, partial) ==
  LET dup == checkDuplication(store, customerFields, ExcludeMany(customerIds))
  IN IF dup # "ok"
     THEN [status |-> dup, stage |-> "check", store |-> store, rel |-> rel,
           ret |-> 0, trace |-> <<>>]
     ELSE MergeChecked(store, rel, newId, customerIds, customerFields, failAt, partial)

\* where the store can reject a call of a merge that passed its check: the
\* findOne or the remove of an input, or the Customers.create of the survivor
FoldFailures(store, customerIds) ==
  {f \in [done : 0..Len(customerIds), method : {"findOne", "remove", "create"}] :
     /\ f.method = "create" <=> f.done = Len(customerIds)
     /\ f.method = "remove" => customerIds[f.done + 1]
                                 \in DOMAIN store \ Range(SubSeq(customerIds, 1, f.done))}

\* the failed call, as the trace records it
FailedStoreCall(customerIds, f) ==
  Event("Customers", f.method, 0,
        IF f.done < Len(customerIds) THEN <<customerIds[f.done + 1]>> ELSE <<>>, FALSE)

\* the deleted inputs restored when the store rejects a call
mergeCustomers_RolledBack(store, rel, customerIds, customerFields, f) ==
  LET dup == checkDuplication(store, customerFields, ExcludeMany(customerIds))
      acc == MergeLoop(MergeSeed(store, customerFields), SubSeq(customerIds, 1, f.done), 1)
  IN IF dup # "ok"
     THEN [status |-> dup, stage |-> "check", store |-> store, rel |-> rel,
           ret |-> 0, trace |-> <<>>]
     ELSE [status |-> "failed",
           stage |-> IF f.done < Len(customerIds) THEN "fold" ELSE "create",
           store |-> store, rel |-> rel, ret |-> 0,
           trace |-> Append(acc.trace, FailedStoreCall(customerIds, f))]

\* the result of mergeCustomers(customerIds, customerFields) when the store
\* rejects a call after f.done inputs were processed: the rejection leaves the
\* loop and the method, the inputs processed so far stay deleted
mergeCustomers_StoreFails(store, rel, customerIds, customerFields, f) ==
  LET dup == checkDuplication(store, customerFields, ExcludeMany(customerIds))
      acc == MergeLoop(MergeSeed(store, customerFields), SubSeq(customerIds, 1, f.done), 1)
  IN IF dup # "ok"
     THEN [status |-> dup, stage |-> "check", store |-> store, rel |-> rel,
           ret |-> 0, trace |-> <<>>]
     ELSE [status |-> "failed",
           stage |-> IF f.done < Len(customerIds) THEN "fold" ELSE "create",
           store |-> acc.store, rel |-> rel, ret |-> 0,
           trace |-> Append(acc.trace, FailedStoreCall(customerIds, f))]

----------------------------------------------------------------------------
(* The calls *)

Call(op, r, stage) ==
  [op |-> op, status |-> r.status, stage |-> stage, ret |-> r.ret, trace |-> r.trace]

NoCall == [op |-> "none", status |-> "ok", stage |-> "", ret |-> 0, trace |-> <<>>]

\* a call in flight: where it is (pc, phase, the find k, the iteration i) and
\* its locals
NewCall(op, doc, _id, customerIds) ==
  [op |-> op, pc |-> "begin", phase |-> "check", k |-> 0, doc |-> doc,
   _id |-> _id, ids |-> customerIds, i |-> 0,
   acc |-> MergeSeed(<<>>, doc), status |-> "", stage |-> "", ret |-> 0]

\* no call in flight
Idle == [NewCall("none", EmptyDoc, 0, <<>>) EXCEPT !.pc = "idle"]

\* the store assigned newId iff it holds a document it did not hold before
Allocated(store, old, next) ==
  IF DOMAIN store \subseteq DOMAIN old THEN next ELSE next + 1

\* the store assigns no _id beyond MaxIds: a call that gets past its
\* duplication check needs one
CanAllocate(dup) == nextId \in Ids \/ dup # "ok"

CreateCall(doc, user) ==
  /\ CanAllocate(checkDuplication(customers, doc, NoExclude))
  /\ \E r \in {createCustomer(customers, nextId, doc, user)} :
     /\ DOMAIN r.store \subseteq Ids
     /\ customers' = r.store
     /\ nextId' = Allocated(r.store, customers, nextId)
     /\ lastCall' = Call("createCustomer", r, "")
  /\ UNCHANGED <<related, family, calls, companies>>

UpdateCall(_id, doc) ==
  /\ \E r \in {updateCustomer(customers, _id, doc)} :
     /\ customers' = r.store
     /\ lastCall' = Call("updateCustomer", r, "")
  /\ UNCHANGED <<nextId, related, family, calls, companies>>

RemoveCall(customerId, failAt, partial) ==
  /\ \E r \in {removeCustomer(customers, related, customerId, failAt, partial)} :
     /\ customers' = r.store
     /\ related' = r.rel
     /\ lastCall' = Call("removeCustomer", r, r.stage)
  /\ UNCHANGED <<nextId, family, calls, companies>>

MergeCall(customerIds, customerFields, failAt, partial) ==
  /\ CanAllocate(checkDuplication(customers, customerFields, ExcludeMany(customerIds)))
  /\ \E r \in {mergeCustomers(customers, related, nextId, customerIds,
                             customerFields, failAt, partial)} :
     /\ DOMAIN r.store \subseteq Ids
     /\ customers' = r.store
     /\ related' = r.rel
     /\ nextId' = Allocated(r.store, customers, nextId)
     /\ lastCall' = Call("mergeCustomers", r, r.stage)
  /\ UNCHANGED <<family, calls, companies>>

MergeStoreFailingCall(customerIds, customerFields, f) ==
  /\ checkDuplication(customers, customerFields, ExcludeMany(customerIds)) = "ok"
  /\ \E r \in {mergeCustomers_StoreFails(customers, related, customerIds,
                                        customerFields, f)} :
     /\ customers' = r.store
     /\ related' = r.rel
     /\ lastCall' = Call("mergeCustomers", r, r.stage)
  /\ UNCHANGED <<nextId, family, calls, companies>>

\* a collaborator stores a record that references a stored customer
AddRelatedCall(c, k, customerId) ==
  /\ customerId \in DOMAIN customers
  /\ k \notin DOMAIN related[c]
  /\ related' = [related EXCEPT ![c] = (k :> customerId) @@ related[c]]
  /\ lastCall' = [NoCall EXCEPT !.op = "addRelated"]
  /\ UNCHANGED <<customers, nextId, family, calls, companies>>

AddCompanyCall(_id) ==
  /\ companies < MaxCompanies
  /\ \E r \in {addCompany(customers, _id, CompanyNames[companies + 1])} :
     /\ customers' = r.store
     /\ lastCall' = Call("addCompany", r, "")
  /\ companies' = companies + 1
  /\ UNCHANGED <<nextId, related, family, calls>>

UpdateCompaniesCall(_id, companyIds) ==
  /\ \E r \in {updateCompanies(customers, _id, companyIds)} :
     /\ customers' = r.store
     /\ lastCall' = Call("updateCompanies", r, "")
  /\ UNCHANGED <<nextId, related, family, calls, companies>>

\* which call of a cascade fails (0: none), and whether the failing call had
\* taken effect
Failures(failAts) ==
  {f \in [failAt : failAts, partial : BOOLEAN] : f.failAt = 0 => ~f.partial}

IdLists == UNION {[1..n -> Ids] : n \in 1..MaxMergeLen}

Create == \E doc \in family : CreateCall(doc, NoUser)

\* the acting users: none, or the user u1
Users == {NoUser, [_id |-> "u1"]}

CreateAs == \E doc \in family, user \in Users : CreateCall(doc, user)

Update == \E _id \in Ids, doc \in family : UpdateCall(_id, doc)

Remove == \E customerId \in Ids : RemoveCall(customerId, 0, FALSE)

Merge ==
  \E customerIds \in IdLists, customerFields \in family :
    MergeCall(customerIds, customerFields, 0, FALSE)

RemoveFailing ==
  \E customerId \in Ids, f \in Failures(1..Len(CollabOrder)) :
    RemoveCall(customerId, f.failAt, f.partial)

MergeFailing ==
  \E customerIds \in IdLists, customerFields \in family,
     f \in Failures(1..Len(CollabOrder)) :
    MergeCall(customerIds, customerFields, f.failAt, f.partial)

MergeStoreFailing ==
  \E customerIds \in IdLists, customerFields \in family :
    \E f \in FoldFailures(customers, customerIds) :
      MergeStoreFailingCall(customerIds, customerFields, f)

AddRelated ==
  \E c \in Collaborators, k \in 1..MaxRelated, customerId \in Ids :
    AddRelatedCall(c, k, customerId)

\* an internal note is written on a customer: InternalNotes is the last
\* collaborator a merge repoints
AddNote == \E customerId \in Ids : AddRelatedCall("InternalNotes", 1, customerId)

AddCompany == \E _id \in Ids : AddCompanyCall(_id)

\* the lists a caller passes: those of the family, and the companies created
CompanyLists ==
  {ArrayOf(doc, "companyIds") : doc \in family}
    \cup {<<CompanyNames[n], CompanyNames[n]>> : n \in 1..companies}

UpdateCompanies ==
  \E _id \in Ids, companyIds \in CompanyLists : UpdateCompaniesCall(_id, companyIds)

InitStores ==
  /\ customers = [i \in {} |-> EmptyDoc]
  /\ nextId = 1
  /\ related = [c \in Collaborators |-> [k \in {} |-> 0]]
  /\ lastCall = NoCall
  /\ calls = [p \in Procs |-> Idle]
  /\ companies = 0

----------------------------------------------------------------------------
(* Spec: the identity fields *)

TwitterDocs == Opt("twitterData", {[id |-> "t1"]})
FacebookDocs == Opt("facebookData", {[id |-> "f1"]})
EmailDocs == Opt("primaryEmail", {"e1"})
PhoneDocs == Opt("primaryPhone", {"p1"})

Both(docsA, docsB) == {a @@ b : a \in docsA, b \in docsB}

FullDoc ==
  [twitterData |-> [id |-> "t1"], facebookData |-> [id |-> "f1"],
   primaryEmail |-> "e1", primaryPhone |-> "p1"]

IdentityFamilies ==
  {Both(TwitterDocs, FacebookDocs), Both(TwitterDocs, EmailDocs),
   Both(TwitterDocs, PhoneDocs), Both(FacebookDocs, EmailDocs),
   Both(FacebookDocs, PhoneDocs), Both(EmailDocs, PhoneDocs),
   {EmptyDoc, FullDoc},
   EmailDocs \cup {[emails |-> <<"e1">>]},
   PhoneDocs \cup {[phones |-> <<"p1">>]}}

Init == InitStores /\ family \in IdentityFamilies

Next == Create \/ Update \/ Remove \/ Merge

Spec == Init /\ [][Next]_vars

----------------------------------------------------------------------------
(* SpecMerge: the fields mergeCustomers folds *)

MergeFamilies ==
  {Opt("tagIds", {<<"g1">>, <<"g1", "g2">>}),
   Opt("companyIds", {<<"c1">>, <<"c1", "c2">>}),
   Opt("integrationId", {"i1", "i2"}),
   Opt("primaryEmail", {"e1"}) \cup Opt("emails", {<<"e1">>, <<"e1", "e2">>}),
   Opt("primaryPhone", {"p1"}) \cup Opt("phones", {<<"p1">>, <<"p1", "p2">>})}

InitMerge == InitStores /\ family \in MergeFamilies

NextMerge == Create \/ Update \/ Merge

SpecMerge == InitMerge /\ [][NextMerge]_vars

----------------------------------------------------------------------------
(* SpecReject: calls refused for a duplicate while the collaborators hold *)
(* records; SpecNotify: merges whose changeCustomer calls may fail;       *)
(* SpecRemove: removals whose cascade calls may fail                      *)

InitReject == InitStores /\ family = EmailDocs

NextReject == Create \/ Update \/ Merge \/ AddRelated

SpecReject == InitReject /\ [][NextReject]_vars

InitNotify == InitStores /\ family = {EmptyDoc}

NextNotify == Create \/ Merge \/ MergeFailing \/ AddRelated

SpecNotify == InitNotify /\ [][NextNotify]_vars

InitPartial == InitStores /\ family = {EmptyDoc}

NextPartial == Create \/ MergeFailing \/ MergeStoreFailing \/ AddNote

SpecPartial == InitPartial /\ [][NextPartial]_vars

InitRemove == InitStores /\ family = EmailDocs

NextRemove == Create \/ Remove \/ RemoveFailing \/ AddRelated

SpecRemove == InitRemove /\ [][NextRemove]_vars

----------------------------------------------------------------------------
(* SpecCompanies: the tag and company lists *)

CompanyDocs == Opt("companyIds", {<<"c1", "c1">>})

InitCompanies == InitStores /\ family = CompanyDocs

NextCompanies == Create \/ Update \/ AddCompany \/ UpdateCompanies \/ Merge

SpecCompanies == InitCompanies /\ [][NextCompanies]_vars

----------------------------------------------------------------------------
(* SpecOwner: the owner, the custom field payload and the plain fields *)

OwnerFamilies ==
  {Both(Opt("ownerId", {"o1"}), Opt("customFieldsData", {{"cf1"}, {"cf1", "zz"}})),
   Both(Opt("ownerId", {"o1"}), Opt("firstName", {"n1"}))}

InitOwner == InitStores /\ family \in OwnerFamilies

NextOwner == CreateAs \/ Merge

SpecOwner == InitOwner /\ [][NextOwner]_vars

----------------------------------------------------------------------------
(* Interleaved calls: a call in flight advances by one awaited store call *)
(* at a time, and the calls of the other processes run in between         *)

\* the key of customerFields each Customers.find of checkDuplication is
\* guarded by, and the Error thrown when it finds a document
FindKey ==
  <<"twitterData", "facebookData", "primaryEmail", "primaryEmail",
    "primaryPhone", "primaryPhone">>

FindError ==
  <<"Duplicated twitter", "Duplicated facebook", "Duplicated email",
    "Duplicated email", "Duplicated phone", "Duplicated phone">>

FindMatch(k, store, q, customerFields) ==
  CASE k = 1 -> TwitterMatch(store, q, customerFields)
    [] k = 2 -> FacebookMatch(store, q, customerFields)
    [] k = 3 -> PrimaryEmailMatch(store, q, customerFields)
    [] k = 4 -> EmailsMatch(store, q, customerFields)
    [] k = 5 -> PrimaryPhoneMatch(store, q, customerFields)
    [] k = 6 -> PhonesMatch(store, q, customerFields)

\* the next find after the k-th that customerFields calls for; beyond the
\* last one when there is none
NextFind(customerFields, k) ==
  LET later == {j \in (k + 1)..Len(FindKey) : Has(customerFields, FindKey[j])}
  IN IF later = {} THEN Len(FindKey) + 1
     ELSE CHOOSE j \in later : \A h \in later : j <= h

\* the call has returned (status "ok") or thrown: its locals are gone, the
\* removals it made stay on record
Done(call, status, stage, ret) ==
  [NewCall(call.op, EmptyDoc, 0, <<>>) EXCEPT
     !.pc = IF status = "ok" THEN "returned" ELSE "threw",
     !.status = status, !.stage = stage, !.ret = ret,
     !.acc.trace = call.acc.trace]

\* what the running checkDuplication excludes
Exclusion(call) ==
  CASE call.phase = "inner"        -> NoExclude
    [] call.op = "createCustomer"  -> NoExclude
    [] call.op = "updateCustomer"  -> ExcludeOne(call._id)
    [] call.op = "mergeCustomers"  -> ExcludeMany(call.ids)

\* the call at the createCustomer that mergeCustomers runs after its loop
InnerCreate(call) ==
  [call EXCEPT !.phase = "inner", !.doc = MergedDoc(call.acc)]

\* the call once its checkDuplication has returned
Checked(call) ==
  CASE call.op = "createCustomer" -> [call EXCEPT !.pc = "create"]
    [] call.op = "updateCustomer" -> [call EXCEPT !.pc = "update"]
    [] call.op = "mergeCustomers" ->
         IF call.phase = "inner" THEN [call EXCEPT !.pc = "create"]
         ELSE [call EXCEPT !.pc = "loop", !.i = 1]

\* the call at the first find of its checkDuplication
Checking(call) ==
  LET k == NextFind(call.doc, 0)
  IN IF k > Len(FindKey) THEN Checked(call) ELSE [call EXCEPT !.pc = "find", !.k = k]

\* the call at the i-th iteration of the loop of mergeCustomers
RECURSIVE Settle(_)
Settle(call) ==
  IF call.pc # "loop" THEN call
  ELSE IF call.i > Len(call.ids) THEN Settle(Checking(InnerCreate(call)))
  ELSE [call EXCEPT !.pc = "findOne"]

\* a Customers.create that checks for duplicates again as it writes
CreateWrite_Rechecked(store, newId, doc) ==
  LET dup == checkDuplication(store, doc, NoExclude)
  IN IF dup # "ok" THEN [status |-> dup, store |-> store]
     ELSE [status |-> "ok", store |-> Insert(store, newId, CreatedDoc(doc, NoUser))]

\* Customers.create of createCustomer, once checkDuplication has returned
CreateWrite(store, newId, doc) ==
  [status |-> "ok", store |-> Insert(store, newId, CreatedDoc(doc, NoUser))]

Startable(p) == calls[p].pc \in {"idle", "returned", "threw"}

Step(p, call) == calls' = [calls EXCEPT ![p] = Settle(call)]

BeginCreate(p, doc) ==
  /\ Startable(p)
  /\ Step(p, Checking(NewCall("createCustomer", doc, 0, <<>>)))
  /\ UNCHANGED <<customers, nextId, related, lastCall, family, companies>>

BeginUpdate(p, _id, doc) ==
  /\ Startable(p)
  /\ Step(p, Checking(NewCall("updateCustomer", doc, _id, <<>>)))
  /\ UNCHANGED <<customers, nextId, related, lastCall, family, companies>>

BeginMerge(p, customerIds, customerFields) ==
  /\ Startable(p)
  /\ Step(p, Checking(NewCall("mergeCustomers", customerFields, 0, customerIds)))
  /\ UNCHANGED <<customers, nextId, related, lastCall, family, companies>>

\* one Customers.find of checkDuplication
Find(p) ==
  LET call == calls[p] IN
  /\ call.pc = "find"
  /\ LET q == QueryIds(customers, Exclusion(call))
         k == NextFind(call.doc, call.k)
     IN Step(p, IF FindMatch(call.k, customers, q, call.doc) # {}
                THEN Done(call, FindError[call.k],
                          IF call.phase = "inner" THEN "create" ELSE "check", 0)
                ELSE IF k > Len(FindKey) THEN Checked(call)
                ELSE [call EXCEPT !.k = k])
  /\ UNCHANGED <<customers, nextId, related, lastCall, family, companies>>

\* Customers.create
StoreCreate(p) ==
  LET call == calls[p] IN
  /\ call.pc = "create"
  /\ nextId \in Ids
  /\ \E r \in {CreateWrite(customers, nextId, call.doc)} :
       /\ customers' = r.store
       /\ nextId' = Allocated(r.store, customers, nextId)
       /\ Step(p, IF r.status # "ok" THEN Done(call, r.status, "create", 0)
                  ELSE IF call.op = "createCustomer" THEN Done(call, "ok", "", nextId)
                  ELSE [call EXCEPT !.pc = "change", !.i = 1, !.ret = nextId])
  /\ UNCHANGED <<related, lastCall, family, companies>>

\* Customers.update({ _id }, { $set })
StoreUpdate(p) ==
  LET call == calls[p] IN
  /\ call.pc = "update"
  /\ customers' = IF call._id \in DOMAIN customers
                  THEN [customers EXCEPT ![call._id] = Spread(@, UpdateSet(call.doc))]
                  ELSE customers
  /\ Step(p, [call EXCEPT !.pc = "refetch"])
  /\ UNCHANGED <<nextId, related, lastCall, family, companies>>

\* Customers.findOne({ _id }) at the end of updateCustomer
Refetch(p) ==
  LET call == calls[p] IN
  /\ call.pc = "refetch"
  /\ Step(p, Done(call, "ok", "",
                  IF call._id \in DOMAIN customers THEN call._id ELSE 0))
  /\ UNCHANGED <<customers, nextId, related, lastCall, family, companies>>

\* Customers.findOne({ _id: customerId }) in the loop of mergeCustomers, and
\* the accumulation that follows it
FindOne(p) ==
  LET call == calls[p]
      customerId == call.ids[call.i]
  IN /\ call.pc = "findOne"
     /\ Step(p, IF customerId \in DOMAIN customers
                THEN [call EXCEPT
                        !.pc = "remove",
                        !.acc = [MergeOne([call.acc EXCEPT !.store = customers],
                                          customerId)
                                   EXCEPT !.store = <<>>, !.trace = call.acc.trace]]
                ELSE [call EXCEPT !.pc = "loop", !.i = call.i + 1])
     /\ UNCHANGED <<customers, nextId, related, lastCall, family, companies>>

\* the removal of the input put off
StoreRemove_PutOff(p) ==
  LET call == calls[p] IN
  /\ call.pc = "remove"
  /\ Step(p, [call EXCEPT
                !.pc = "loop", !.i = call.i + 1,
                !.acc.trace = Append(@, Event("Customers", "remove", 0,
                                              <<call.ids[call.i]>>, TRUE))])
  /\ UNCHANGED <<customers, nextId, related, lastCall, family, companies>>

\* Customers.remove({ _id: customerId }) in the loop of mergeCustomers
StoreRemove(p) ==
  LET call == calls[p] IN
  /\ call.pc = "remove"
  /\ customers' = Delete(customers, call.ids[call.i])
  /\ Step(p, [call EXCEPT
                !.pc = "loop", !.i = call.i + 1,
                !.acc.trace = Append(@, Event("Customers", "remove", 0,
                                              <<call.ids[call.i]>>, TRUE))])
  /\ UNCHANGED <<nextId, related, lastCall, family, companies>>

\* one changeCustomer(customer._id, customerIds) of mergeCustomers
Change(p) ==
  LET call == calls[p] IN
  /\ call.pc = "change"
  /\ related' = [related EXCEPT ![CollabOrder[call.i]] =
                                  changeCustomer(@, call.ret, call.ids)]
  /\ Step(p, IF call.i = Len(CollabOrder) THEN Done(call, "ok", "", call.ret)
             ELSE [call EXCEPT !.i = call.i + 1])
  /\ UNCHANGED <<customers, nextId, lastCall, family, companies>>

StartCreate == \E p \in Procs, doc \in family : BeginCreate(p, doc)

StartUpdate == \E p \in Procs, _id \in Ids, doc \in family : BeginUpdate(p, _id, doc)

\* the merges are started by the first process
StartMerge ==
  \E customerIds \in IdLists, customerFields \in family :
    BeginMerge(1, customerIds, customerFields)

Finds == \E p \in Procs : Find(p)

Creates == \E p \in Procs : StoreCreate(p)

Updates == \E p \in Procs : StoreUpdate(p)

Refetches == \E p \in Procs : Refetch(p)

FindOnes == \E p \in Procs : FindOne(p)

Removes == \E p \in Procs : StoreRemove(p)

Changes == \E p \in Procs : Change(p)

\* SpecRace: creates and updates in flight together
InitRace == InitStores /\ family = EmailDocs

NextRace == StartCreate \/ StartUpdate \/ Finds \/ Creates \/ Updates \/ Refetches

SpecRace == InitRace /\ [][NextRace]_vars

\* SpecMergeRace: a merge in flight together with creates and updates
InitMergeRace == InitStores /\ family = EmailDocs

NextMergeRace ==
  \/ StartMerge \/ StartCreate \/ StartUpdate
  \/ Finds \/ Creates \/ Updates \/ Refetches \/ FindOnes \/ Removes \/ Changes

SpecMergeRace == InitMergeRace /\ [][NextMergeRace]_vars

----------------------------------------------------------------------------
(* Identity values and collisions, as the claims state them *)

EmailValues(rec) ==
  (IF Has(rec, "primaryEmail") THEN {rec.primaryEmail} ELSE {})
    \cup Range(ArrayOf(rec, "emails"))

PhoneValues(rec) ==
  (IF Has(rec, "primaryPhone") THEN {rec.primaryPhone} ELSE {})
    \cup Range(ArrayOf(rec, "phones"))

SameKey(a, b, f) == Has(a, f) /\ Has(b, f) /\ a[f] = b[f]

\* rec matches doc on the identity field
Matches(rec, doc, field) ==
  CASE field = "twitter"  -> SameKey(rec, doc, "twitterData")
    [] field = "facebook" -> SameKey(rec, doc, "facebookData")
    [] field = "email"    -> Has(doc, "primaryEmail") /\ doc.primaryEmail \in EmailValues(rec)
    [] field = "phone"    -> Has(doc, "primaryPhone") /\ doc.primaryPhone \in PhoneValues(rec)

FieldOrder == <<"twitter", "facebook", "email", "phone">>

\* the identity fields on which doc matches a stored customer outside excluded
Colliding(store, doc, excluded) ==
  {field \in Range(FieldOrder) :
     \E i \in DOMAIN store \ excluded : Matches(store[i], doc, field)}

DupError(field) ==
  CASE field = "twitter"  -> "Duplicated twitter"
    [] field = "facebook" -> "Duplicated facebook"
    [] field = "email"    -> "Duplicated email"
    [] field = "phone"    -> "Duplicated phone"

DupErrors == {DupError(field) : field \in Range(FieldOrder)}

\* the first field of FieldOrder that is in fields
FirstOf(fields) ==
  FieldOrder[CHOOSE k \in 1..Len(FieldOrder) :
               /\ FieldOrder[k] \in fields
               /\ \A j \in 1..(k - 1) : FieldOrder[j] \notin fields]

----------------------------------------------------------------------------
(* C1: in every state reached by create, update, merge and remove calls    *)
(* from the empty store, no two distinct stored customers hold the same    *)
(* twitter id, the same facebook id, the same primary email or the same    *)
(* primary phone.                                                          *)
C1_UniquePrimaries ==
  \A a, b \in DOMAIN customers :
    a # b =>
      /\ ~(SameKey(customers[a], customers[b], "twitterData"))
      /\ ~(SameKey(customers[a], customers[b], "facebookData"))
      /\ ~(SameKey(customers[a], customers[b], "primaryEmail"))
      /\ ~(SameKey(customers[a], customers[b], "primaryPhone"))

\* two customers are stored, one of them holding a primary phone, and a call
\* carrying that kind of value was just refused
C1_Witness ==
  /\ Cardinality(DOMAIN customers) >= 2
  /\ \E a \in DOMAIN customers : Has(customers[a], "primaryPhone")
  /\ lastCall.status = "Duplicated phone"

(* C2: an email (phone) value that is the primary email or in the emails   *)
(* list of one stored customer is neither the primary email nor in the     *)
(* emails list of any other stored customer (likewise primaryPhone and     *)
(* phones), also when a caller supplies its own emails or phones list.     *)
C2_UniqueAcrossLists ==
  \A a, b \in DOMAIN customers :
    a # b =>
      /\ EmailValues(customers[a]) \cap EmailValues(customers[b]) = {}
      /\ PhoneValues(customers[a]) \cap PhoneValues(customers[b]) = {}

----------------------------------------------------------------------------
\* what a createCustomer(doc) call must have done
C3_Post(doc) ==
  LET colliding == Colliding(customers, doc, {}) IN
  IF colliding # {}
  THEN /\ lastCall'.status \in {DupError(field) : field \in colliding}
       /\ customers' = customers
  ELSE /\ lastCall'.status = "ok"
       /\ lastCall'.ret \notin DOMAIN customers
       /\ DOMAIN customers' = DOMAIN customers \cup {lastCall'.ret}
       /\ \A i \in DOMAIN customers : customers'[i] = customers[i]

(* C3: createCustomer(doc) fails with the duplicate-field error of a       *)
(* colliding field whenever a stored customer matches doc on twitter id,   *)
(* facebook id, primary email (against primaryEmail or emails) or primary  *)
(* phone (against primaryPhone or phones), and then stores nothing; when   *)
(* doc matches no stored customer it succeeds and adds exactly one record. *)
C3_CreateRejectsDuplicates ==
  [][\A doc \in family : CreateCall(doc, NoUser) => C3_Post(doc)]_vars

\* a create was refused for its primary email while a stored customer holds
\* a primary email
C3_Witness ==
  /\ lastCall.op = "createCustomer"
  /\ lastCall.status = "Duplicated email"
  /\ \E a \in DOMAIN customers : Has(customers[a], "primaryEmail")

----------------------------------------------------------------------------
\* the exclusions a caller can pass, and the ids each excludes
Exclusions ==
  {NoExclude} \cup {ExcludeOne(id) : id \in Ids}
              \cup {ExcludeMany(ids) : ids \in IdLists}

Excluded(idsToExclude) ==
  CASE idsToExclude.kind = "none" -> {}
    [] idsToExclude.kind = "one"  -> {idsToExclude.id}
    [] idsToExclude.kind = "many" -> Range(idsToExclude.ids)

(* C4: when the fields passed to checkDuplication collide with stored,     *)
(* non-excluded records on more than one identity field, the error         *)
(* reported is that of the first colliding field in the order twitter,     *)
(* facebook, email, phone.                                                 *)
C4_FirstCollidingFieldReported ==
  \A customerFields \in family, idsToExclude \in Exclusions :
    LET colliding == Colliding(customers, customerFields, Excluded(idsToExclude)) IN
    Cardinality(colliding) > 1 =>
      checkDuplication(customers, customerFields, idsToExclude)
        = DupError(FirstOf(colliding))

\* a create carrying all four identity fields was refused while a stored
\* customer holds all four: twitter is reported, not facebook, email or phone
C4_Witness ==
  /\ family = {EmptyDoc, FullDoc}
  /\ lastCall.op = "createCustomer"
  /\ lastCall.status = "Duplicated twitter"
  /\ Cardinality(Colliding(customers, FullDoc, {})) = 4

----------------------------------------------------------------------------
\* the documents that repeat one of a record's own identity values
IdentityKeys == {"twitterData", "facebookData", "primaryEmail", "primaryPhone"}

OwnDocs(rec) == {[g \in {f} |-> rec[f]] : f \in IdentityKeys \cap DOMAIN rec}

(* C5: an excluded record never makes checkDuplication fail: for every     *)
(* stored customer A, updateCustomer(A, {primaryEmail: A.primaryEmail})    *)
(* does not fail (likewise its own primaryPhone, twitter id, facebook id), *)
(* and mergeCustomers(ids, fields) is not rejected at its first check when *)
(* the identity values of fields are held only by records in ids.          *)
C5_ExcludedNeverCollide ==
  [][/\ \A a \in DOMAIN customers :
          \A doc \in OwnDocs(customers[a]) :
            UpdateCall(a, doc) => lastCall'.status = "ok"
     /\ \A customerIds \in IdLists, customerFields \in family :
          Colliding(customers, customerFields, Range(customerIds)) = {}
            => checkDuplication(customers, customerFields,
                                ExcludeMany(customerIds)) = "ok"]_vars

----------------------------------------------------------------------------
\* the calls refused for a duplicate before any write
C6_Rejected(call) ==
  /\ call.status \in DupErrors
  /\ \/ call.op \in {"createCustomer", "updateCustomer"}
     \/ call.op = "mergeCustomers" /\ call.stage = "check"

(* C6: when createCustomer, updateCustomer or the first step of            *)
(* mergeCustomers fails with a duplicate-field error, nothing was mutated: *)
(* the customer store and the collaborator stores are as before the call,  *)
(* no input of the merge was deleted, no collaborator was called.          *)
C6_RejectionMutatesNothing ==
  [][C6_Rejected(lastCall') =>
       /\ customers' = customers
       /\ related' = related
       /\ nextId' = nextId
       /\ lastCall'.trace = <<>>]_vars

\* a merge was refused at its first check while customers are stored and a
\* collaborator holds a record
C6_Witness ==
  /\ C6_Rejected(lastCall)
  /\ lastCall.op = "mergeCustomers"
  /\ Cardinality(DOMAIN customers) >= 2
  /\ \E c \in Collaborators : DOMAIN related[c] # {}

----------------------------------------------------------------------------
\* the survivor's lists against the lists of the merged records
Completed(call) == call.op = "mergeCustomers" /\ call.status = "ok"

C7_Union(customerIds, key) ==
  UNION {Range(ArrayOf(customers[i], key)) : i \in Range(customerIds) \cap DOMAIN customers}

C7_Seed(customerFields, key) ==
  IF Has(customerFields, key) THEN {customerFields[key]} ELSE {}

C7_Post(customerIds, customerFields) ==
  LET survivor == customers'[lastCall'.ret] IN
  /\ NoRepeat(survivor.tagIds)
  /\ Range(survivor.tagIds) = C7_Union(customerIds, "tagIds")
  /\ NoRepeat(survivor.companyIds)
  /\ Range(survivor.companyIds) = C7_Union(customerIds, "companyIds")
  /\ NoRepeat(survivor.emails)
  /\ Range(survivor.emails)
       = C7_Seed(customerFields, "primaryEmail") \cup C7_Union(customerIds, "emails")
  /\ NoRepeat(survivor.phones)
  /\ Range(survivor.phones)
       = C7_Seed(customerFields, "primaryPhone") \cup C7_Union(customerIds, "phones")

(* C7: for a mergeCustomers(ids, fields) call that completes, the          *)
(* survivor's tagIds are, without repeats, the union of the tagIds of the  *)
(* inputs that resolved; likewise companyIds; its emails are the union of  *)
(* fields.primaryEmail (if present) and the inputs' emails; likewise       *)
(* phones with fields.primaryPhone.                                        *)
C7_SurvivorHoldsUnions ==
  [][Completed(lastCall') =>
       \A customerIds \in IdLists, customerFields \in family :
         MergeCall(customerIds, customerFields, 0, FALSE)
           => C7_Post(customerIds, customerFields)]_vars

Removals(call) ==
  {k \in 1..Len(call.trace) :
     call.trace[k].target = "Customers" /\ call.trace[k].method = "remove"}

\* two customers were merged and the survivor holds the tags g1, g2 once each
C7_Witness ==
  /\ Completed(lastCall)
  /\ Cardinality(Removals(lastCall)) = 2
  /\ customers[lastCall.ret].tagIds = <<"g1", "g2">>

----------------------------------------------------------------------------
\* the store after a merge of distinct stored customers
IntegrationOf(rec) == IF Has(rec, "integrationId") THEN {rec.integrationId} ELSE {}

C8_Post(customerIds) ==
  LET survivor == lastCall'.ret
      last == customerIds[Len(customerIds)]
  IN /\ Range(customerIds) \cap DOMAIN customers' = {}
     /\ survivor \notin DOMAIN customers
     /\ DOMAIN customers' = (DOMAIN customers \ Range(customerIds)) \cup {survivor}
     /\ \A i \in DOMAIN customers \ Range(customerIds) : customers'[i] = customers[i]
     /\ IntegrationOf(customers'[survivor]) = IntegrationOf(customers[last])

(* C8: after a mergeCustomers([A, B], fields) call that completes, neither *)
(* A nor B is stored, exactly one new record (the survivor) is, and the    *)
(* survivor's integrationId is that of the input processed last (B's),     *)
(* whatever integrationId fields carried.                                  *)
C8_InputsGoneLastIntegrationWins ==
  [][Completed(lastCall') =>
       \A customerIds \in IdLists, customerFields \in family :
         /\ NoRepeat(customerIds)
         /\ Range(customerIds) \subseteq DOMAIN customers
         /\ MergeCall(customerIds, customerFields, 0, FALSE)
         => C8_Post(customerIds)]_vars

\* two customers were merged and the survivor carries the integration i2
C8_Witness ==
  /\ Completed(lastCall)
  /\ Cardinality(Removals(lastCall)) = 2
  /\ DOMAIN customers = {lastCall.ret}
  /\ IntegrationOf(customers[lastCall.ret]) = {"i2"}

----------------------------------------------------------------------------
\* the notifications of a completed merge and their effect
C9_Post(customerIds) ==
  LET t == lastCall'.trace
      n == Len(t) - Len(CollabOrder)
      survivor == lastCall'.ret
      merged == Range(customerIds) \cap DOMAIN customers
  IN /\ n >= 1
     /\ t[n] = Event("Customers", "create", survivor, <<>>, TRUE)
     /\ \A k \in 1..Len(CollabOrder) :
          t[n + k] = Event(CollabOrder[k], "changeCustomer", survivor, customerIds, TRUE)
     /\ \A c \in Collaborators :
          /\ DOMAIN related'[c] = DOMAIN related[c]
          /\ \A key \in DOMAIN related[c] :
               /\ related'[c][key] \notin merged
               /\ related[c][key] \in Range(customerIds) => related'[c][key] = survivor
               /\ related[c][key] \notin Range(customerIds)
                    => related'[c][key] = related[c][key]

(* C9: after a mergeCustomers(ids, fields) call that completes, each of    *)
(* ActivityLogs, Conversations, EngageMessages, InternalNotes was told,    *)
(* after the survivor was created, changeCustomer(survivor, ids) with the  *)
(* whole list ids; no collaborator record references a merged customer and *)
(* every record that referenced one of ids references the survivor.        *)
C9_CollaboratorsRepointed ==
  [][Completed(lastCall') =>
       \A customerIds \in IdLists, customerFields \in family :
         MergeCall(customerIds, customerFields, 0, FALSE) => C9_Post(customerIds)]_vars

\* two customers were merged and a collaborator record references the survivor
C9_Witness ==
  /\ Completed(lastCall)
  /\ Cardinality(Removals(lastCall)) = 2
  /\ \E c \in Collaborators :
       \E key \in DOMAIN related[c] : related[c][key] = lastCall.ret

----------------------------------------------------------------------------
\* the cascade of a removal that failed at failAt (0: it did not fail)
References(recs, customerId) == {key \in DOMAIN recs : recs[key] = customerId}

C10_Post(customerId, failAt) ==
  LET t == lastCall'.trace
      n == Invoked(failAt)
  IN /\ \A k \in 1..n :
          t[k] = Event(CollabOrder[k], RemoveMethod[CollabOrder[k]], 0,
                       <<customerId>>, k # failAt)
     /\ \A k \in 1..n :
          k # failAt => References(related'[CollabOrder[k]], customerId) = {}
     /\ IF failAt = 0
        THEN /\ lastCall'.status = "ok"
             /\ Len(t) = n + 1
             /\ t[n + 1] = Event("Customers", "remove", 0, <<customerId>>, TRUE)
             /\ customerId \notin DOMAIN customers'
        ELSE /\ lastCall'.status = "failed"
             /\ lastCall'.stage = CollabOrder[failAt]
             /\ Len(t) = n
             /\ customers' = customers
             /\ \A k \in (n + 1)..Len(CollabOrder) :
                  related'[CollabOrder[k]] = related[CollabOrder[k]]

(* C10: removeCustomer(X) calls the cascade deletion of ActivityLogs,      *)
(* Conversations, EngageMessages, InternalNotes in that order and deletes  *)
(* X's document only after all four succeeded; if the k-th fails the call  *)
(* fails with it, the later ones are not called, the earlier collaborators *)
(* stay cleaned and X's document is still stored.                          *)
C10_CascadeBeforeDelete ==
  [][lastCall'.op = "removeCustomer" =>
       \A customerId \in Ids, f \in Failures(0..Len(CollabOrder)) :
         RemoveCall(customerId, f.failAt, f.partial)
           => C10_Post(customerId, f.failAt)]_vars

\* the third cascade call of a removal failed: the customer is still stored,
\* ActivityLogs holds no record of it, InternalNotes still does
C10_Witness ==
  /\ lastCall.op = "removeCustomer"
  /\ lastCall.status = "failed"
  /\ lastCall.stage = "EngageMessages"
  /\ \E customerId \in DOMAIN customers :
       /\ lastCall.trace[1].ids = <<customerId>>
       /\ References(related["ActivityLogs"], customerId) = {}
       /\ References(related["InternalNotes"], customerId) # {}

----------------------------------------------------------------------------
(* C11: updateCustomer(id, doc) with an id that resolves to no stored      *)
(* record and a doc that passes the duplication check fails with a         *)
(* not-found error; it does not return normally and it creates no record.  *)
C11_UpdateOfMissingFails ==
  [][\A _id \in Ids \ DOMAIN customers, doc \in family :
       /\ checkDuplication(customers, doc, ExcludeOne(_id)) = "ok"
       /\ UpdateCall(_id, doc)
       => /\ lastCall'.status # "ok"
          /\ customers' = customers]_vars

----------------------------------------------------------------------------
\* the write of a call in flight that has passed its duplication check
C12_Writes(p) ==
  LET call == calls[p] IN
  IF call.pc = "create"
  THEN /\ nextId \notin DOMAIN customers
       /\ customers' = Insert(customers, nextId, CreatedDoc(call.doc, NoUser))
       /\ call.op = "createCustomer"
            => calls'[p].pc = "returned" /\ calls'[p].ret = nextId
  ELSE /\ call._id \in DOMAIN customers
         => customers' = [customers EXCEPT ![call._id] = Spread(@, UpdateSet(call.doc))]
       /\ calls'[p].pc = "refetch"

(* C12: when calls carrying the same identity value are interleaved at    *)
(* their awaited store calls, both can pass checkDuplication before       *)
(* either writes: a call that has passed its check writes its document    *)
(* whatever the store has become since (no lock, version or transaction), *)
(* so both succeed and two customers hold the same identity value.        *)
C12_CheckedCallWrites ==
  [][\A p \in Procs :
       calls[p].pc \in {"create", "update"} /\ calls'[p] # calls[p]
         => C12_Writes(p)]_vars

\* two createCustomer calls have both returned a customer, and the two
\* customers hold the same primary email
C12_Witness ==
  \E p, q \in Procs :
    /\ p # q
    /\ calls[p].op = "createCustomer" /\ calls[p].pc = "returned"
    /\ calls[q].op = "createCustomer" /\ calls[q].pc = "returned"
    /\ calls[p].ret # calls[q].ret
    /\ {calls[p].ret, calls[q].ret} \subseteq DOMAIN customers
    /\ SameKey(customers[calls[p].ret], customers[calls[q].ret], "primaryEmail")

----------------------------------------------------------------------------
(* C13: in every state reached by createCustomer, updateCustomer,          *)
(* addCompany, updateCompanies and mergeCustomers calls, no stored         *)
(* customer's tagIds and no stored customer's companyIds holds the same    *)
(* identifier twice.                                                       *)
C13_ListsAreSets ==
  \A a \in DOMAIN customers :
    /\ NoRepeat(ArrayOf(customers[a], "tagIds"))
    /\ NoRepeat(ArrayOf(customers[a], "companyIds"))

----------------------------------------------------------------------------
\* what addCompany on the stored customer _id must have done
C17_Post(_id) ==
  LET company == CompanyNames[companies + 1]
      before == ArrayOf(customers[_id], "companyIds")
      after == ArrayOf(customers'[_id], "companyIds")
      t == lastCall'.trace
  IN /\ lastCall'.status = "ok"
     /\ lastCall'.ret = company
     /\ companies' = companies + 1
     /\ Cardinality({k \in 1..Len(t) : t[k].target = "Companies"}) = 1
     /\ Cardinality({k \in 1..Len(after) : after[k] = company}) = 1
     /\ Len(after) >= Len(before)
     /\ SubSeq(after, 1, Len(before)) = before
     /\ Without(customers'[_id], "companyIds") = Without(customers[_id], "companyIds")
     /\ DOMAIN customers' = DOMAIN customers
     /\ \A other \in DOMAIN customers \ {_id} : customers'[other] = customers[other]

(* C17: addCompany on an existing customer creates exactly one company     *)
(* through Companies; afterwards that company's identifier occurs exactly  *)
(* once in the customer's companyIds, the identifiers that were in         *)
(* companyIds are still there, no other field of the customer and no other *)
(* customer has changed; the call never fails for a duplicate.             *)
C17_AddCompanyAddsOne ==
  [][lastCall'.op = "addCompany" =>
       \A _id \in DOMAIN customers : AddCompanyCall(_id) => C17_Post(_id)]_vars

\* a company was added to a customer that already held companies, beside
\* another stored customer
C17_Witness ==
  /\ lastCall.op = "addCompany"
  /\ Cardinality(DOMAIN customers) >= 2
  /\ \E a \in DOMAIN customers :
       ArrayOf(customers[a], "companyIds") = <<"c1", "c1", lastCall.ret>>

----------------------------------------------------------------------------
\* the record createCustomer(doc) stores, as the round trip states it
C14_Expected(doc) ==
  Spread(doc,
         [customFieldsData |->
            cleanMulti(IF Has(doc, "customFieldsData") THEN doc.customFieldsData ELSE {}),
          createdAt |-> Now, modifiedAt |-> Now])

(* C14: after createCustomer(doc) succeeds, the record fetched under the   *)
(* returned identifier has the fields of doc, customFieldsData being the   *)
(* sanitized payload, plus the created and modified timestamps; no field   *)
(* of doc is dropped or altered (also when an acting user is given).       *)
C14_RoundTrip ==
  [][lastCall'.op = "createCustomer" /\ lastCall'.status = "ok" =>
     \A doc \in family, user \in Users :
       CreateCall(doc, user)
         => LET fetched == customers'[lastCall'.ret] IN
            /\ lastCall'.ret \notin DOMAIN customers
            /\ user = NoUser => fetched = C14_Expected(doc)
            /\ \A f \in DOMAIN doc : fetched[f] = C14_Expected(doc)[f]]_vars

\* a customer was created with an owner and a sanitized payload
C14_Witness ==
  /\ lastCall.op = "createCustomer"
  /\ lastCall.status = "ok"
  /\ LET fetched == customers[lastCall.ret] IN
     /\ Has(fetched, "ownerId")
     /\ fetched.ownerId = "o1"
     /\ fetched.customFieldsData = {"cf1"}

----------------------------------------------------------------------------
\* the owner of a record or document, if any
C16_OwnerOf(rec) == IF Has(rec, "ownerId") THEN {rec.ownerId} ELSE {}

(* C16: createCustomer(doc, user) stores the user's identifier as ownerId  *)
(* when doc leaves ownerId unset and a user is given, doc.ownerId when it  *)
(* is set, and no owner when neither is given; the survivor of             *)
(* mergeCustomers has exactly the ownerId of the supplied field set.       *)
C16_OwnerDefault ==
  [][/\ lastCall'.op = "createCustomer" /\ lastCall'.status = "ok" =>
          \A doc \in family, user \in Users :
            CreateCall(doc, user)
            => C16_OwnerOf(customers'[lastCall'.ret])
                 = (IF Has(doc, "ownerId") THEN {doc.ownerId}
                    ELSE IF Has(user, "_id") THEN {user._id} ELSE {})
     /\ Completed(lastCall') =>
          \A customerIds \in IdLists, customerFields \in family :
            MergeCall(customerIds, customerFields, 0, FALSE)
              => C16_OwnerOf(customers'[lastCall'.ret]) = C16_OwnerOf(customerFields)]_vars

\* a customer was merged into a survivor without owner, beside a customer
\* that the acting user owns
C16_Witness ==
  /\ Completed(lastCall)
  /\ Cardinality(Removals(lastCall)) = 1
  /\ C16_OwnerOf(customers[lastCall.ret]) = {}
  /\ \E a \in DOMAIN customers : C16_OwnerOf(customers[a]) = {"u1"}

----------------------------------------------------------------------------
\* the store rejected a call of the merge after f.done inputs: those inputs
\* are deleted, every other record is as it was, there is no survivor and no
\* collaborator was told
C15_StorePost(customerIds, f) ==
  LET gone == Range(SubSeq(customerIds, 1, f.done)) \cap DOMAIN customers IN
  /\ DOMAIN customers' = DOMAIN customers \ gone
  /\ \A a \in DOMAIN customers' : customers'[a] = customers[a]
  /\ \A j \in (f.done + 1)..Len(customerIds) :
       customerIds[j] \in DOMAIN customers \ gone => customerIds[j] \in DOMAIN customers'
  /\ related' = related
  /\ \A k \in 1..Len(lastCall'.trace) : lastCall'.trace[k].target = "Customers"

\* the failAt-th changeCustomer failed: the inputs are deleted, the survivor
\* exists, the later collaborators were never called
C15_CollabPost(customerIds, failAt) ==
  /\ nextId \notin DOMAIN customers
  /\ DOMAIN customers' = (DOMAIN customers \ Range(customerIds)) \cup {nextId}
  /\ \A k \in (failAt + 1)..Len(CollabOrder) :
       /\ related'[CollabOrder[k]] = related[CollabOrder[k]]
       /\ \A n \in 1..Len(lastCall'.trace) : lastCall'.trace[n].target # CollabOrder[k]

(* C15: mergeCustomers deletes each input during the fold, before the      *)
(* survivor is created, and nothing is rolled back: when the store rejects *)
(* a call after the i-th input (in the fold or in the inner create), the   *)
(* inputs 1..i are deleted, the remaining inputs still exist and there is  *)
(* no survivor; when a changeCustomer call fails, the survivor exists and  *)
(* the later collaborators were never told.                                *)
C15_NothingRolledBack ==
  [][lastCall'.op = "mergeCustomers" /\ lastCall'.status = "failed" =>
       \A customerIds \in IdLists, customerFields \in family :
         IF lastCall'.stage \in {"fold", "create"}
         THEN \A f \in FoldFailures(customers, customerIds) :
                MergeStoreFailingCall(customerIds, customerFields, f)
                  => C15_StorePost(customerIds, f)
         ELSE \A f \in Failures(1..Len(CollabOrder)) :
                /\ CollabOrder[f.failAt] = lastCall'.stage
                /\ MergeCall(customerIds, customerFields, f.failAt, f.partial)
                => C15_CollabPost(customerIds, f.failAt)]_vars

\* a merge failed in the fold after deleting its first input: the second input
\* is still stored and nothing was created
C15_Witness ==
  /\ lastCall.op = "mergeCustomers"
  /\ lastCall.status = "failed"
  /\ lastCall.stage = "fold"
  /\ Len(lastCall.trace) = 2
  /\ lastCall.trace[1].ok
  /\ lastCall.trace[1].ids[1] \notin DOMAIN customers
  /\ lastCall.trace[2].method = "remove"
  /\ lastCall.trace[2].ids[1] \in DOMAIN customers

----------------------------------------------------------------------------
(* C18: when calls do not overlap, a mergeCustomers(ids, fields) call that *)
(* passed its first duplication check (all ids excluded) never fails at    *)
(* the exclusion-free check of the inner createCustomer run after the      *)
(* inputs were deleted: absent store and collaborator failures it creates  *)
(* the survivor. Stated of every call that can be made in a reachable      *)
(* state between two other calls.                                           *)
C18_SecondCheckPasses ==
  \A customerIds \in IdLists, customerFields \in family :
    checkDuplication(customers, customerFields, ExcludeMany(customerIds)) = "ok"
      => \E r \in {mergeCustomers(customers, related, nextId, customerIds,
                                 customerFields, 0, FALSE)} :
           /\ r.status = "ok"
           /\ r.stage # "create"
           /\ r.ret \in DOMAIN r.store \ DOMAIN customers

\* a merge deleted an input and created a survivor that holds an identity
\* value
C18_Witness ==
  /\ Completed(lastCall)
  /\ Cardinality(Removals(lastCall)) >= 1
  /\ lastCall.ret \in DOMAIN customers
  /\ IdentityKeys \cap DOMAIN customers[lastCall.ret] # {}

----------------------------------------------------------------------------
\* the identifiers of a list that resolve to a record when they are processed:
\* stored, and not a repeat of an earlier one
RECURSIVE C20_Resolved(_, _)
C20_Resolved(store, customerIds) ==
  IF customerIds = <<>> THEN <<>>
  ELSE IF Head(customerIds) \in DOMAIN store
  THEN <<Head(customerIds)>>
         \o C20_Resolved(Delete(store, Head(customerIds)), Tail(customerIds))
  ELSE C20_Resolved(store, Tail(customerIds))

C20_Changes(trace) == SelectSeq(trace, LAMBDA e : e.method = "changeCustomer")

C20_Others(trace) == SelectSeq(trace, LAMBDA e : e.method # "changeCustomer")

(* C20: an identifier of ids that resolves to no record when it is         *)
(* processed (never stored, or a repeat of an earlier one) contributes     *)
(* nothing to the accumulators, does not change the integration reference  *)
(* and deletes nothing - the merge stores and deletes what the merge of    *)
(* the resolved identifiers alone does - yet it is passed to every         *)
(* changeCustomer call; the survivor is created even when no identifier    *)
(* resolves, and the number of customers after a completed merge is the    *)
(* number before, minus the distinct resolved inputs, plus one.            *)
C20_UnresolvedIdsAreInert ==
  \A customerIds \in IdLists, customerFields \in family :
    checkDuplication(customers, customerFields, ExcludeMany(customerIds)) = "ok"
      => \E r \in {mergeCustomers(customers, related, nextId, customerIds,
                                 customerFields, 0, FALSE)} :
         \E only \in {mergeCustomers(customers, related, nextId,
                                    C20_Resolved(customers, customerIds),
                                    customerFields, 0, FALSE)} :
           /\ r.status = "ok"
           /\ r.store = only.store
           /\ C20_Others(r.trace) = C20_Others(only.trace)
           /\ Len(C20_Changes(r.trace)) = Len(CollabOrder)
           /\ \A k \in 1..Len(CollabOrder) :
                C20_Changes(r.trace)[k]
                  = Event(CollabOrder[k], "changeCustomer", r.ret, customerIds, TRUE)
           /\ r.ret \in DOMAIN r.store
           /\ Cardinality(DOMAIN r.store)
                = Cardinality(DOMAIN customers)
                    - Cardinality(Range(customerIds) \cap DOMAIN customers) + 1

\* a merge of two identifiers completed having deleted one record only: the
\* other identifier resolved to nothing and was passed to the collaborators
C20_Witness ==
  /\ Completed(lastCall)
  /\ Cardinality(Removals(lastCall)) = 1
  /\ Len(lastCall.trace[Len(lastCall.trace)].ids) = 2
  /\ lastCall.ret \in DOMAIN customers
  /\ Cardinality(DOMAIN customers) >= 2

----------------------------------------------------------------------------
\* the merge of process p is at a find of its inner createCustomer that
\* comes upon a document
C19_InnerCollision(p) ==
  /\ calls[p].op = "mergeCustomers"
  /\ calls[p].phase = "inner"
  /\ calls[p].pc = "find"
  /\ calls'[p].pc = "threw"

(* C19: a mergeCustomers call interleaved with a createCustomer or         *)
(* updateCustomer that writes one of the merge's identity values between   *)
(* the merge's first check and the check of its inner createCustomer fails *)
(* with a duplicate-field error when every input record it resolved is     *)
(* already deleted and no survivor exists: the loop is over, the records   *)
(* it removed are absent, and the failing step restores and creates        *)
(* nothing.                                                                *)
C19_MergedCustomersLost ==
  [][\A p \in Procs :
       C19_InnerCollision(p) =>
         /\ calls'[p].status \in DupErrors
         /\ calls'[p].stage = "create"
         /\ calls'[p].ret = 0
         /\ calls[p].i > Len(calls[p].ids)
         /\ \A k \in 1..Len(calls[p].acc.trace) :
              /\ calls[p].acc.trace[k].ids[1] \in Range(calls[p].ids)
              /\ calls[p].acc.trace[k].ids[1] \notin DOMAIN customers'
         /\ customers' = customers
         /\ nextId' = nextId
         /\ related' = related]_vars

\* the merge threw at its inner check after removing an input: the input is
\* gone, and the only customer stored is the one whose address collided,
\* written by the other process
C19_Witness ==
  \E p \in Procs :
    /\ calls[p].op = "mergeCustomers"
    /\ calls[p].pc = "threw"
    /\ calls[p].stage = "create"
    /\ calls[p].status = "Duplicated email"
    /\ Len(calls[p].acc.trace) = 1
    /\ calls[p].acc.trace[1].ids[1] \notin DOMAIN customers
    /\ Cardinality(DOMAIN customers) = 1
    /\ \A a \in DOMAIN customers :
         Has(customers[a], "primaryEmail") /\ customers[a].primaryEmail = "e1"

====
